---- MODULE Spec2Model ----
(***************************************************************************)
(* A model of NFD's face-management core: FaceTable (add / remove) and     *)
(* TcpFactory (processConfig, createFace, prohibitEndpoint, createChannel, *)
(* findChannel).  The two components share no state; each has its own      *)
(* next-state relation and specification over the common variable tuple.   *)
(***************************************************************************)
EXTENDS Integers, Sequences, FiniteSets, TLC

VARIABLES
  \* ---- FaceTable (src/unnamed/part_000) ----
  m_lastFaceId,        \* FaceTable::m_lastFaceId
  m_faces,             \* FaceTable::m_faces : FaceId -> Face
  faceId,              \* Face::getId() of every face object
  onReceiveInterest,   \* Face::onReceiveInterest subscriber list of every face
  onReceiveData,       \* Face::onReceiveData subscriber list of every face
  fib,                 \* Forwarder::getFib(): prefix -> set of next-hop faces
  assigned,            \* history: the ids handed out by add, in call order
  ftCall,              \* the last FaceTable operation and its argument
  \* ---- TcpFactory (src/daemon/face/tcp-factory.cpp) ----
  m_channels,            \* TcpFactory::m_channels : tcp::Endpoint -> TcpChannel
  m_prohibitedEndpoints, \* TcpFactory::m_prohibitedEndpoints
  providedSchemes,       \* ProtocolFactory::providedSchemes
  nics,                  \* what listNetworkInterfaces() returns now
  snapshot,              \* history: per channel, what listNetworkInterfaces()
                         \* returned when the channel was created
  fCall                  \* the last TcpFactory operation, its arguments and outcome

ftVars == <<m_lastFaceId, m_faces, faceId, onReceiveInterest, onReceiveData,
            fib, assigned, ftCall>>

fVars == <<m_channels, m_prohibitedEndpoints, providedSchemes, nics, snapshot, fCall>>

vars == <<ftVars, fVars>>

-----------------------------------------------------------------------------
(* Bounds of the model *)

NumFaces == 2
MaxAdds == 3
NumPrefixes == 1
MaxChannels == 2

Faces == 1..NumFaces
Prefixes == 1..NumPrefixes

-----------------------------------------------------------------------------
(* FaceTable *)

INVALID_FACEID == -1

OnInterest == "Forwarder::onInterest"
OnData == "Forwarder::onData"
Other == "other"

Range(f) == {f[i] : i \in DOMAIN f}

\* std::map operator[] assignment: m[k] = v
MapPut(m, k, v) == [i \in DOMAIN m \cup {k} |-> IF i = k THEN v ELSE m[i]]

\* std::map erase(k)
MapErase(m, k) == [i \in DOMAIN m \ {k} |-> m[i]]

NextFaceIdBySize(last) == Cardinality(DOMAIN m_faces) + 1

\* FaceId faceId = ++m_lastFaceId;
NextFaceId(last) == last + 1

FaceTableInit ==
  /\ m_lastFaceId = 0
  /\ m_faces = <<>>
  /\ faceId = [f \in Faces |-> INVALID_FACEID]
  /\ onReceiveInterest = [f \in Faces |-> <<>>]
  /\ onReceiveData = [f \in Faces |-> <<>>]
  /\ fib = [p \in Prefixes |-> {}]
  /\ assigned = <<>>
  /\ ftCall = [op |-> "none"]

\* FaceTable::add(face)
add(face) ==
  LET id == NextFaceId(m_lastFaceId) IN
  /\ m_lastFaceId' = id
  /\ faceId' = [faceId EXCEPT ![face] = id]
  /\ m_faces' = MapPut(m_faces, id, face)
  /\ onReceiveInterest' = [onReceiveInterest EXCEPT ![face] = Append(@, OnInterest)]
  /\ onReceiveData' = [onReceiveData EXCEPT ![face] = Append(@, OnData)]
  /\ assigned' = Append(assigned, id)
  /\ ftCall' = [op |-> "add", face |-> face, id |-> id]
  /\ UNCHANGED fib

\* Fib::removeNextHopFromAllEntries(face)
removeNextHopFromAllEntries(f, face) == [p \in DOMAIN f |-> f[p] \ {face}]

\* What remove's caller could observe of the face just before the call.
Before(face) ==
  [nextHop |-> \E p \in DOMAIN fib : face \in fib[p],
   subscribers |-> Len(onReceiveInterest[face]) + Len(onReceiveData[face])]

removeKeepId(face) ==
  LET id == faceId[face] IN
  /\ m_faces' = MapErase(m_faces, id)
  /\ faceId' = faceId
  /\ onReceiveInterest' = [onReceiveInterest EXCEPT ![face] = <<>>]
  /\ onReceiveData' = [onReceiveData EXCEPT ![face] = <<>>]
  /\ fib' = removeNextHopFromAllEntries(fib, face)
  /\ ftCall' = [op |-> "remove", face |-> face, id |-> id, before |-> Before(face)]
  /\ UNCHANGED <<m_lastFaceId, assigned>>

removeKeepSubscribers(face) ==
  LET id == faceId[face] IN
  /\ m_faces' = MapErase(m_faces, id)
  /\ faceId' = [faceId EXCEPT ![face] = INVALID_FACEID]
  /\ fib' = removeNextHopFromAllEntries(fib, face)
  /\ ftCall' = [op |-> "remove", face |-> face, id |-> id, before |-> Before(face)]
  /\ UNCHANGED <<m_lastFaceId, assigned, onReceiveInterest, onReceiveData>>

removeClearInterestOnly(face) ==
  LET id == faceId[face] IN
  /\ m_faces' = MapErase(m_faces, id)
  /\ faceId' = [faceId EXCEPT ![face] = INVALID_FACEID]
  /\ onReceiveInterest' = [onReceiveInterest EXCEPT ![face] = <<>>]
  /\ fib' = removeNextHopFromAllEntries(fib, face)
  /\ ftCall' = [op |-> "remove", face |-> face, id |-> id, before |-> Before(face)]
  /\ UNCHANGED <<m_lastFaceId, assigned, onReceiveData>>

\* FaceTable::remove(face)
remove(face) ==
  LET id == faceId[face] IN
  /\ m_faces' = MapErase(m_faces, id)
  /\ faceId' = [faceId EXCEPT ![face] = INVALID_FACEID]
  /\ onReceiveInterest' = [onReceiveInterest EXCEPT ![face] = <<>>]
  /\ onReceiveData' = [onReceiveData EXCEPT ![face] = <<>>]
  /\ fib' = removeNextHopFromAllEntries(fib, face)
  /\ ftCall' = [op |-> "remove", face |-> face, id |-> id, before |-> Before(face)]
  /\ UNCHANGED <<m_lastFaceId, assigned>>

\* A caller that respects add's precondition: the face is newly created.
Add(face) ==
  /\ Len(assigned) < MaxAdds
  /\ faceId[face] = INVALID_FACEID
  /\ add(face)
  /\ UNCHANGED fVars

\* A caller that respects remove's precondition: the face is registered.
Remove(face) ==
  /\ faceId[face] # INVALID_FACEID
  /\ remove(face)
  /\ UNCHANGED fVars

Subscribers(face) == Range(onReceiveInterest[face]) \cup Range(onReceiveData[face])

\* Another component subscribes to one of a face's event slots
\* (EventEmitter +=); at most one such subscription per face.
Subscribe(face) ==
  /\ Other \notin Subscribers(face)
  /\ \/ /\ onReceiveInterest' = [onReceiveInterest EXCEPT ![face] = Append(@, Other)]
        /\ UNCHANGED onReceiveData
     \/ /\ onReceiveData' = [onReceiveData EXCEPT ![face] = Append(@, Other)]
        /\ UNCHANGED onReceiveInterest
  /\ ftCall' = [op |-> "subscribe", face |-> face]
  /\ UNCHANGED <<m_lastFaceId, m_faces, faceId, fib, assigned>>
  /\ UNCHANGED fVars

\* The forwarding table gains a next hop through a registered face.
FibAddNextHop(prefix, face) ==
  /\ faceId[face] # INVALID_FACEID
  /\ face \notin fib[prefix]
  /\ fib' = [fib EXCEPT ![prefix] = @ \cup {face}]
  /\ ftCall' = [op |-> "addNextHop", face |-> face]
  /\ UNCHANGED <<m_lastFaceId, m_faces, faceId, onReceiveInterest, onReceiveData, assigned>>
  /\ UNCHANGED fVars

\* A caller that breaks add's precondition: the face is already registered.
AddRegistered(face) ==
  /\ Len(assigned) < MaxAdds
  /\ faceId[face] # INVALID_FACEID
  /\ add(face)
  /\ UNCHANGED fVars

\* A caller that breaks remove's precondition: the face is not registered.
RemoveUnregistered(face) ==
  /\ faceId[face] = INVALID_FACEID
  /\ remove(face)
  /\ UNCHANGED fVars

FaceTableNext ==
  \/ \E face \in Faces : Add(face)
  \/ \E face \in Faces : Remove(face)
  \/ \E face \in Faces : Subscribe(face)
  \/ \E prefix \in Prefixes, face \in Faces : FibAddNextHop(prefix, face)

-----------------------------------------------------------------------------
(* TcpFactory: addresses and endpoints (boost::asio::ip) *)

Any4 == "0.0.0.0"
Remote4 == "10.0.0.9"
Lo4 == "127.0.0.1"
Nic4 == "192.168.0.2"
Mcast4 == "224.0.0.1"
Any6 == "::"
Lo6 == "::1"
Remote6 == "2001:db8::9"
Nic6 == "fe80::1"
Mcast6 == "ff02::1"

\* The addresses of the model in the order of ip::address operator< :
\* every IPv4 address before every IPv6 address, then by numeric value.
AddressOrder == <<Any4, Remote4, Lo4, Nic4, Mcast4, Any6, Lo6, Remote6, Nic6, Mcast6>>

V4Addresses == {Any4, Remote4, Lo4, Nic4, Mcast4}
V6Addresses == {Any6, Lo6, Remote6, Nic6, Mcast6}
Addresses == V4Addresses \cup V6Addresses

is_v4(a) == a \in V4Addresses
is_v6(a) == a \in V6Addresses
is_multicast(a) == a \in {Mcast4, Mcast6}
is_loopback(a) == a \in {Lo4, Lo6}

Ports == {6363, 6364}

Endpoint(a, p) == [address |-> a, port |-> p]

AddressRank(a) == CHOOSE i \in DOMAIN AddressOrder : AddressOrder[i] = a

\* tcp::Endpoint operator< : by address, then by port (the key order of m_channels)
EndpointLess(e1, e2) ==
  \/ AddressRank(e1.address) < AddressRank(e2.address)
  \/ e1.address = e2.address /\ e1.port < e2.port

\* listNetworkInterfaces(): eth0 configured, or eth0 without an address
\* (reported with the wildcard address).
NicsUp ==
  {[name |-> "lo", ipv4Addresses |-> {Lo4}, ipv6Addresses |-> {Lo6}],
   [name |-> "eth0", ipv4Addresses |-> {Nic4}, ipv6Addresses |-> {Nic6}]}
NicsDown ==
  {[name |-> "lo", ipv4Addresses |-> {Lo4}, ipv6Addresses |-> {Lo6}],
   [name |-> "eth0", ipv4Addresses |-> {Any4}, ipv6Addresses |-> {Any6}]}
NicConfigs == {"eth0 up", "eth0 down"}

\* The interfaces of a configuration.
Interfaces(config) == IF config = "eth0 up" THEN NicsUp ELSE NicsDown

-----------------------------------------------------------------------------
(* TcpFactory: prohibitEndpoint, findChannel, createChannel *)

RECURSIVE prohibitEndpoint(_, _, _)
RECURSIVE prohibitAllIpv4Endpoints(_, _, _, _)
RECURSIVE prohibitAllIpv6Endpoints(_, _, _, _)

\* The loop body of prohibitAllIpv4Endpoints over the addresses still to visit.
prohibitAllIpv4Endpoints(prohibited, port, todo, nicList) ==
  IF todo = {} THEN prohibited
  ELSE LET addr == CHOOSE a \in todo : TRUE
           next == IF addr # Any4
                   THEN prohibitEndpoint(prohibited, Endpoint(addr, port), nicList)
                   ELSE prohibited
       IN prohibitAllIpv4Endpoints(next, port, todo \ {addr}, nicList)

\* The loop body of prohibitAllIpv6Endpoints over the addresses still to visit.
prohibitAllIpv6Endpoints(prohibited, port, todo, nicList) ==
  IF todo = {} THEN prohibited
  ELSE LET addr == CHOOSE a \in todo : TRUE
           next == IF addr # Any6
                   THEN prohibitEndpoint(prohibited, Endpoint(addr, port), nicList)
                   ELSE prohibited
       IN prohibitAllIpv6Endpoints(next, port, todo \ {addr}, nicList)

prohibitEndpointBothFamilies(prohibited, endpoint, nicList) ==
  LET all == UNION {nic.ipv4Addresses \cup nic.ipv6Addresses : nic \in nicList}
      expanded ==
        IF endpoint.address \in {Any4, Any6}
        THEN prohibited \cup {Endpoint(a, endpoint.port) : a \in all \ {Any4, Any6}}
        ELSE prohibited
  IN expanded \cup {endpoint}

\* TcpFactory::prohibitEndpoint(endpoint): the set after the call
prohibitEndpoint(prohibited, endpoint, nicList) ==
  LET expanded ==
        IF is_v4(endpoint.address) /\ endpoint.address = Any4
        THEN prohibitAllIpv4Endpoints(prohibited, endpoint.port,
               UNION {nic.ipv4Addresses : nic \in nicList}, nicList)
        ELSE IF is_v6(endpoint.address) /\ endpoint.address = Any6
        THEN prohibitAllIpv6Endpoints(prohibited, endpoint.port,
               UNION {nic.ipv6Addresses : nic \in nicList}, nicList)
        ELSE prohibited
  IN expanded \cup {endpoint}

Null == [gen |-> 0]

\* TcpFactory::findChannel(localEndpoint): the channel, or Null (nullptr)
findChannel(channels, localEndpoint) ==
  IF localEndpoint \in DOMAIN channels THEN channels[localEndpoint] ELSE Null

\* make_shared<TcpChannel>(endpoint): a channel that is not listening
NewChannel(channels, endpoint) ==
  [gen |-> IF endpoint \in DOMAIN channels THEN channels[endpoint].gen + 1 ELSE 1,
   listening |-> FALSE, onFaceCreated |-> "none"]

createChannelNoProhibit(f, endpoint, nicList) ==
  LET channel == findChannel(f.channels, endpoint) IN
  IF channel # Null
  THEN [channels |-> f.channels, prohibited |-> f.prohibited,
        snapshot |-> f.snapshot, channel |-> channel, created |-> FALSE]
  ELSE LET made == NewChannel(f.channels, endpoint) IN
       [channels |-> MapPut(f.channels, endpoint, made),
        prohibited |-> f.prohibited,
        snapshot |-> MapPut(f.snapshot, endpoint, nics),
        channel |-> made, created |-> TRUE]

createChannelAlwaysMake(f, endpoint, nicList) ==
  LET made == NewChannel(f.channels, endpoint) IN
  [channels |-> MapPut(f.channels, endpoint, made),
   prohibited |-> prohibitEndpoint(f.prohibited, endpoint, nicList),
   snapshot |-> MapPut(f.snapshot, endpoint, nics),
   channel |-> made, created |-> endpoint \notin DOMAIN f.channels]

\* TcpFactory::createChannel(endpoint) on the factory fields
\* f = [channels, prohibited, snapshot]: the fields after the call and the
\* channel returned
createChannel(f, endpoint, nicList) ==
  LET channel == findChannel(f.channels, endpoint) IN
  IF channel # Null
  THEN [channels |-> f.channels, prohibited |-> f.prohibited,
        snapshot |-> f.snapshot, channel |-> channel, created |-> FALSE]
  ELSE LET made == NewChannel(f.channels, endpoint) IN
       [channels |-> MapPut(f.channels, endpoint, made),
        prohibited |-> prohibitEndpoint(f.prohibited, endpoint, nicList),
        snapshot |-> MapPut(f.snapshot, endpoint, nics),
        channel |-> made, created |-> TRUE]

Fields == [channels |-> m_channels, prohibited |-> m_prohibitedEndpoints,
           snapshot |-> snapshot]

\* listNetworkInterfaces() now
listNetworkInterfaces == Interfaces(nics)

TcpFactoryInit ==
  /\ m_channels = <<>>
  /\ m_prohibitedEndpoints = {}
  /\ providedSchemes = {}
  /\ nics \in NicConfigs
  /\ snapshot = <<>>
  /\ fCall = [op |-> "none"]

\* The local addresses createChannel(localIp, localPort) is called with.
ChannelAddresses == {Any4, Nic4, Lo6}

\* ip::address::from_string of a host string of the model
from_string(host) == IF host \in Addresses THEN host ELSE "bad_address"

\* boost::lexical_cast<uint16_t> of a port string of the model
lexical_cast(portString) ==
  CASE portString = "6363" -> 6363
    [] portString = "6364" -> 6364
    [] OTHER -> -1

PortStrings == {"6363", "6364"}

\* TcpFactory::createChannel(localIp, localPort)
CreateChannel(localIp, localPort) ==
  \E endpoint \in {Endpoint(from_string(localIp), lexical_cast(localPort))} :
  \E r \in {createChannel(Fields, endpoint, listNetworkInterfaces)} :
     /\ Cardinality(DOMAIN r.channels) <= MaxChannels
     /\ m_channels' = r.channels
     /\ m_prohibitedEndpoints' = r.prohibited
     /\ snapshot' = r.snapshot
     /\ fCall' = [op |-> "createChannel", endpoint |-> endpoint,
                  created |-> IF r.created THEN {endpoint} ELSE {},
                  returned |-> r.channel]
     /\ UNCHANGED <<providedSchemes, nics>>
     /\ UNCHANGED ftVars

-----------------------------------------------------------------------------
(* TcpFactory: processConfig *)

\* ConfigFile::parseYesNo
parseYesNo(value) ==
  CASE value = "yes" -> [ok |-> TRUE, value |-> TRUE]
    [] value = "no" -> [ok |-> TRUE, value |-> FALSE]
    [] OTHER -> [ok |-> FALSE, value |-> FALSE]

\* ConfigFile::parseNumber<uint16_t>
parseNumber(value) ==
  IF value \in PortStrings
  THEN [ok |-> TRUE, value |-> lexical_cast(value)]
  ELSE [ok |-> FALSE, value |-> 0]

Defaults ==
  [wantListen |-> TRUE, port |-> 6363, enableV4 |-> TRUE, enableV6 |-> TRUE,
   error |-> "none"]

RECURSIVE parseSection(_, _, _)
\* The loop over the section's pairs, from pair i on, with the locals in acc.
parseSection(section, i, acc) ==
  IF i > Len(section) THEN acc
  ELSE LET key == section[i][1]
           value == section[i][2]
       IN CASE key = "listen" ->
                 LET r == parseYesNo(value) IN
                 IF r.ok THEN parseSection(section, i + 1, [acc EXCEPT !.wantListen = r.value])
                 ELSE [acc EXCEPT !.error = "ConfigFile::Error"]
            [] key = "port" ->
                 LET r == parseNumber(value) IN
                 IF r.ok THEN parseSection(section, i + 1, [acc EXCEPT !.port = r.value])
                 ELSE [acc EXCEPT !.error = "ConfigFile::Error"]
            [] key = "enable_v4" ->
                 LET r == parseYesNo(value) IN
                 IF r.ok THEN parseSection(section, i + 1, [acc EXCEPT !.enableV4 = r.value])
                 ELSE [acc EXCEPT !.error = "ConfigFile::Error"]
            [] key = "enable_v6" ->
                 LET r == parseYesNo(value) IN
                 IF r.ok THEN parseSection(section, i + 1, [acc EXCEPT !.enableV6 = r.value])
                 ELSE [acc EXCEPT !.error = "ConfigFile::Error"]
            [] OTHER -> [acc EXCEPT !.error = "ConfigFile::Error"]

validateNoFamilyCheck(section) == parseSection(section, 1, Defaults)

\* Lines 62-91: the locals after the loop and the both-disabled check.
validate(section) ==
  LET acc == parseSection(section, 1, Defaults) IN
  IF acc.error = "none" /\ ~acc.enableV4 /\ ~acc.enableV6
  THEN [acc EXCEPT !.error = "ConfigFile::Error"]
  ELSE acc

AddFace == "context.addFace"

\* TcpChannel::listen(onFaceCreated, onAcceptFailed)
listen(channel, onFaceCreated) ==
  [channel EXCEPT !.listening = TRUE, !.onFaceCreated = onFaceCreated]

WarnAll == "Cannot disable tcp4 and tcp6 channels after initialization"
Warn4 == "Cannot close tcp4 channel after its creation"
Warn6 == "Cannot close tcp6 channel after its creation"

configureFamilyNoListen(st, enable, wildcard, port, wantListen, scheme, warning, nicList) ==
  IF enable
  THEN LET endpoint == Endpoint(wildcard, port)
           r == createChannel(st, endpoint, nicList)
       IN [channels |-> r.channels,
           prohibited |-> r.prohibited,
           snapshot |-> r.snapshot,
           schemes |-> st.schemes \cup {scheme},
           warnings |-> st.warnings,
           listened |-> st.listened,
           created |-> IF r.created THEN st.created \cup {endpoint} ELSE st.created,
           error |-> st.error]
  ELSE IF scheme \in st.schemes
  THEN [st EXCEPT !.warnings = @ \cup {warning}]
  ELSE st

configureFamilyRelisten(st, enable, wildcard, port, wantListen, scheme, warning, nicList) ==
  IF enable
  THEN LET endpoint == Endpoint(wildcard, port)
           r == createChannel(st, endpoint, nicList)
       IN [channels |-> IF wantListen
                        THEN MapPut(r.channels, endpoint, listen(r.channel, AddFace))
                        ELSE r.channels,
           prohibited |-> r.prohibited,
           snapshot |-> r.snapshot,
           schemes |-> st.schemes \cup {scheme},
           warnings |-> st.warnings,
           listened |-> IF wantListen THEN st.listened \cup {endpoint} ELSE st.listened,
           created |-> IF r.created THEN st.created \cup {endpoint} ELSE st.created,
           error |-> st.error]
  ELSE IF scheme \in st.schemes
  THEN [st EXCEPT !.warnings = @ \cup {warning}]
  ELSE st

configureFamilyForgets(st, enable, wildcard, port, wantListen, scheme, warning, nicList) ==
  IF enable
  THEN LET endpoint == Endpoint(wildcard, port)
           r == createChannel(st, endpoint, nicList)
           doListen == wantListen /\ ~r.channel.listening
       IN [channels |-> IF doListen
                        THEN MapPut(r.channels, endpoint, listen(r.channel, AddFace))
                        ELSE r.channels,
           prohibited |-> r.prohibited,
           snapshot |-> r.snapshot,
           schemes |-> st.schemes \cup {scheme},
           warnings |-> st.warnings,
           listened |-> IF doListen THEN st.listened \cup {endpoint} ELSE st.listened,
           created |-> IF r.created THEN st.created \cup {endpoint} ELSE st.created,
           error |-> st.error]
  ELSE IF scheme \in st.schemes
  THEN [st EXCEPT !.warnings = @ \cup {warning}, !.schemes = @ \ {scheme}]
  ELSE st

\* One address family's block of processConfig (lines 96-106 and 108-118) on
\* st = [channels, prohibited, snapshot, schemes, warnings, listened, created].
configureFamily(st, enable, wildcard, port, wantListen, scheme, warning, nicList) ==
  IF enable
  THEN LET endpoint == Endpoint(wildcard, port)
           r == createChannel(st, endpoint, nicList)
           doListen == wantListen /\ ~r.channel.listening
       IN [channels |-> IF doListen
                        THEN MapPut(r.channels, endpoint, listen(r.channel, AddFace))
                        ELSE r.channels,
           prohibited |-> r.prohibited,
           snapshot |-> r.snapshot,
           schemes |-> st.schemes \cup {scheme},
           warnings |-> st.warnings,
           listened |-> IF doListen THEN st.listened \cup {endpoint} ELSE st.listened,
           created |-> IF r.created THEN st.created \cup {endpoint} ELSE st.created,
           error |-> st.error]
  ELSE IF scheme \in st.schemes
  THEN [st EXCEPT !.warnings = @ \cup {warning}]
  ELSE st

Before0 ==
  [channels |-> m_channels, prohibited |-> m_prohibitedEndpoints,
   snapshot |-> snapshot, schemes |-> providedSchemes,
   warnings |-> {}, listened |-> {}, created |-> {}, error |-> "none"]

\* OptionalConfigSection: no section, or the section's pairs
NoSection == [present |-> FALSE, pairs |-> <<>>]
Some(pairs) == [present |-> TRUE, pairs |-> pairs]

processConfigNoDryRun(configSection, isDryRun, nicList) ==
  IF ~configSection.present
  THEN IF ~isDryRun /\ DOMAIN m_channels # {}
       THEN [Before0 EXCEPT !.warnings = {WarnAll}]
       ELSE Before0
  ELSE LET acc == validate(configSection.pairs) IN
       IF acc.error # "none" THEN [Before0 EXCEPT !.error = acc.error]
       ELSE LET s0 == [Before0 EXCEPT !.schemes = @ \cup {"tcp"}]
                s4 == configureFamily(s0, acc.enableV4, Any4, acc.port,
                                      acc.wantListen, "tcp4", Warn4, nicList)
                s6 == configureFamily(s4, acc.enableV6, Any6, acc.port,
                                      acc.wantListen, "tcp6", Warn6, nicList)
            IN s6

\* TcpFactory::processConfig(configSection, context): the factory's fields
\* after the call, with the error thrown, the warnings logged, the channels
\* listen was called on and the channels made.
processConfig(configSection, isDryRun, nicList) ==
  IF ~configSection.present
  THEN IF ~isDryRun /\ DOMAIN m_channels # {}
       THEN [Before0 EXCEPT !.warnings = {WarnAll}]
       ELSE Before0
  ELSE LET acc == validate(configSection.pairs) IN
       IF acc.error # "none" THEN [Before0 EXCEPT !.error = acc.error]
       ELSE IF isDryRun THEN Before0
       ELSE LET s0 == [Before0 EXCEPT !.schemes = @ \cup {"tcp"}]
                s4 == configureFamily(s0, acc.enableV4, Any4, acc.port,
                                      acc.wantListen, "tcp4", Warn4, nicList)
                s6 == configureFamily(s4, acc.enableV6, Any6, acc.port,
                                      acc.wantListen, "tcp6", Warn6, nicList)
            IN s6

Opt(key, value) == IF value = "-" THEN <<>> ELSE <<<<key, value>>>>

ScenarioA == <<<<"listen", "yes">>, <<"port", "6363">>,
               <<"enable_v4", "yes">>, <<"enable_v6", "yes">>>>

\* The pairs of the config sections processConfig is called with.
SectionPairs ==
  {Opt("listen", l) \o Opt("port", p) \o Opt("enable_v4", a) \o Opt("enable_v6", b) :
     l \in {"-", "no"}, p \in {"-", "6364"}, a \in {"-", "no"}, b \in {"-", "no"}}
  \cup {ScenarioA,
        <<<<"bogus", "1">>>>,
        <<<<"enable_v4", "no">>, <<"bogus", "1">>>>,
        <<<<"listen", "maybe">>>>,
        <<<<"enable_v4", "no">>, <<"enable_v4", "yes">>>>,
        <<<<"enable_v6", "no">>, <<"port", "6364">>, <<"enable_v4", "no">>>>}

Sections == {Some(pairs) : pairs \in SectionPairs} \cup {NoSection}

\* TcpFactory::processConfig(configSection, context)
ProcessConfig(configSection, isDryRun) ==
  \E r \in {processConfig(configSection, isDryRun, listNetworkInterfaces)} :
  /\ Cardinality(DOMAIN r.channels) <= MaxChannels
  /\ m_channels' = r.channels
  /\ m_prohibitedEndpoints' = r.prohibited
  /\ snapshot' = r.snapshot
  /\ providedSchemes' = r.schemes
  /\ fCall' = [op |-> "processConfig", configSection |-> configSection,
               isDryRun |-> isDryRun, error |-> r.error, warnings |-> r.warnings,
               listened |-> r.listened, created |-> r.created]
  /\ UNCHANGED nics
  /\ UNCHANGED ftVars

-----------------------------------------------------------------------------
(* TcpFactory: createFace *)

ON_DEMAND == "on-demand"
PERSISTENT == "persistent"
PERMANENT == "permanent"

ReasonLocalUri == "Unicast TCP faces cannot be created with a LocalUri"
ReasonOnDemand == "Outgoing TCP faces do not support on-demand persistency"
ReasonMulticast == "Cannot create multicast TCP faces"
ReasonProhibited == "Requested endpoint is prohibited"
ReasonLocalFields == "Local fields can only be enabled on faces with local scope"
ReasonNoChannel == "No channels available to connect"

\* What one createFace call did: its onFailure(code, reason) calls, its
\* channel->connect(...) calls, and whether resolving the remote threw.
NoOutcome == [failures |-> <<>>, connects |-> <<>>, created |-> <<>>, thrown |-> FALSE]
Fail(code, reason) ==
  [NoOutcome EXCEPT !.failures = <<[code |-> code, reason |-> reason]>>]
Thrown == [NoOutcome EXCEPT !.thrown = TRUE]
Connect(key, endpoint, req) ==
  [NoOutcome EXCEPT !.connects =
     <<[channel |-> key, remote |-> endpoint, persistency |-> req.persistency,
        wantLocalFieldsEnabled |-> req.wantLocalFieldsEnabled,
        onCreated |-> req.onCreated, onFailure |-> req.onFailure]>>]

RECURSIVE SortedKeys(_)
\* The keys of a std::map in iteration order.
SortedKeys(keys) ==
  IF keys = {} THEN <<>>
  ELSE LET least == CHOOSE k \in keys : \A o \in keys \ {k} : EndpointLess(k, o)
       IN <<least>> \o SortedKeys(keys \ {least})

RECURSIVE connectLastMatch(_, _, _, _)
connectLastMatch(order, i, endpoint, req) ==
  IF i > Len(order) THEN Fail(504, ReasonNoChannel)
  ELSE LET later == connectLastMatch(order, i + 1, endpoint, req)
       IN IF later.connects # <<>> THEN later
          ELSE IF \/ is_v4(order[i].address) /\ is_v4(endpoint.address)
                  \/ is_v6(order[i].address) /\ is_v6(endpoint.address)
               THEN Connect(order[i], endpoint, req)
               ELSE later

RECURSIVE connectFirstMatch(_, _, _, _)
\* Lines 166-176: the loop over m_channels from position i on.
connectFirstMatch(order, i, endpoint, req) ==
  IF i > Len(order) THEN Fail(504, ReasonNoChannel)
  ELSE IF \/ is_v4(order[i].address) /\ is_v4(endpoint.address)
          \/ is_v6(order[i].address) /\ is_v6(endpoint.address)
       THEN Connect(order[i], endpoint, req)
       ELSE connectFirstMatch(order, i + 1, endpoint, req)

createFaceOnDemandFirst(req, channels, prohibited) ==
  IF req.persistency = ON_DEMAND THEN Fail(406, ReasonOnDemand)
  ELSE IF req.localUri THEN Fail(406, ReasonLocalUri)
  ELSE LET address == from_string(req.remoteUri.host)
           port == lexical_cast(req.remoteUri.port)
           endpoint == Endpoint(address, port)
       IN IF address = "bad_address" \/ port = -1 THEN Thrown
          ELSE IF is_multicast(endpoint.address) THEN Fail(406, ReasonMulticast)
          ELSE IF endpoint \in prohibited THEN Fail(406, ReasonProhibited)
          ELSE IF req.wantLocalFieldsEnabled /\ ~is_loopback(endpoint.address)
               THEN Fail(406, ReasonLocalFields)
          ELSE connectFirstMatch(SortedKeys(DOMAIN channels), 1, endpoint, req)

createFaceLocalFieldsNever(req, channels, prohibited) ==
  IF req.localUri THEN Fail(406, ReasonLocalUri)
  ELSE IF req.persistency = ON_DEMAND THEN Fail(406, ReasonOnDemand)
  ELSE LET address == from_string(req.remoteUri.host)
           port == lexical_cast(req.remoteUri.port)
           endpoint == Endpoint(address, port)
       IN IF address = "bad_address" \/ port = -1 THEN Thrown
          ELSE IF is_multicast(endpoint.address) THEN Fail(406, ReasonMulticast)
          ELSE IF endpoint \in prohibited THEN Fail(406, ReasonProhibited)
          ELSE IF req.wantLocalFieldsEnabled THEN Fail(406, ReasonLocalFields)
          ELSE connectFirstMatch(SortedKeys(DOMAIN channels), 1, endpoint, req)

createFaceNoProhibitedGate(req, channels, prohibited) ==
  IF req.localUri THEN Fail(406, ReasonLocalUri)
  ELSE IF req.persistency = ON_DEMAND THEN Fail(406, ReasonOnDemand)
  ELSE LET address == from_string(req.remoteUri.host)
           port == lexical_cast(req.remoteUri.port)
           endpoint == Endpoint(address, port)
       IN IF address = "bad_address" \/ port = -1 THEN Thrown
          ELSE IF is_multicast(endpoint.address) THEN Fail(406, ReasonMulticast)
          ELSE IF req.wantLocalFieldsEnabled /\ ~is_loopback(endpoint.address)
               THEN Fail(406, ReasonLocalFields)
          ELSE connectFirstMatch(SortedKeys(DOMAIN channels), 1, endpoint, req)

createFaceNoReturn(req, channels, prohibited) ==
  IF req.localUri THEN Fail(406, ReasonLocalUri)
  ELSE IF req.persistency = ON_DEMAND THEN Fail(406, ReasonOnDemand)
  ELSE LET address == from_string(req.remoteUri.host)
           port == lexical_cast(req.remoteUri.port)
           endpoint == Endpoint(address, port)
           rest == connectFirstMatch(SortedKeys(DOMAIN channels), 1, endpoint, req)
       IN IF address = "bad_address" \/ port = -1 THEN Thrown
          ELSE IF is_multicast(endpoint.address) THEN Fail(406, ReasonMulticast)
          ELSE IF endpoint \in prohibited THEN Fail(406, ReasonProhibited)
          ELSE IF req.wantLocalFieldsEnabled /\ ~is_loopback(endpoint.address)
               THEN [rest EXCEPT !.failures = <<[code |-> 406, reason |-> ReasonLocalFields]>> \o @]
          ELSE rest

\* TcpFactory::createFace(remoteUri, localUri, persistency,
\* wantLocalFieldsEnabled, onCreated, onFailure)
createFace(req, channels, prohibited) ==
  IF req.localUri THEN Fail(406, ReasonLocalUri)
  ELSE IF req.persistency = ON_DEMAND THEN Fail(406, ReasonOnDemand)
  ELSE LET address == from_string(req.remoteUri.host)
           port == lexical_cast(req.remoteUri.port)
           endpoint == Endpoint(address, port)
       IN IF address = "bad_address" \/ port = -1 THEN Thrown
          ELSE IF is_multicast(endpoint.address) THEN Fail(406, ReasonMulticast)
          ELSE IF endpoint \in prohibited THEN Fail(406, ReasonProhibited)
          ELSE IF req.wantLocalFieldsEnabled /\ ~is_loopback(endpoint.address)
               THEN Fail(406, ReasonLocalFields)
          ELSE connectFirstMatch(SortedKeys(DOMAIN channels), 1, endpoint, req)

Request(host, port, localUri, persistency, wantLocalFieldsEnabled) ==
  [remoteUri |-> [host |-> host, port |-> port], localUri |-> localUri,
   persistency |-> persistency, wantLocalFieldsEnabled |-> wantLocalFieldsEnabled,
   onCreated |-> "onCreated", onFailure |-> "onFailure"]

\* The remote hosts createFace is called with: canonical addresses, and one
\* string that is no address.
Hosts == {Any4, Remote4, Lo4, Nic4, Mcast4, Lo6, Remote6, Mcast6, "not-an-address"}

Requests ==
  {Request(h, p, l, y, w) :
     h \in Hosts, p \in PortStrings, l \in BOOLEAN,
     y \in {ON_DEMAND, PERSISTENT, PERMANENT}, w \in BOOLEAN}

CreateFaceRegisters(req) ==
  /\ fCall' = [op |-> "createFace", req |-> req,
               out |-> createFace(req, m_channels, m_prohibitedEndpoints)]
  /\ m_prohibitedEndpoints' =
       IF from_string(req.remoteUri.host) = "bad_address" THEN m_prohibitedEndpoints
       ELSE m_prohibitedEndpoints \cup
              {Endpoint(req.remoteUri.host, lexical_cast(req.remoteUri.port))}
  /\ UNCHANGED <<m_channels, providedSchemes, nics, snapshot>>
  /\ UNCHANGED ftVars

\* TcpFactory::createFace
CreateFace(req) ==
  /\ fCall' = [op |-> "createFace", req |-> req,
               out |-> createFace(req, m_channels, m_prohibitedEndpoints)]
  /\ UNCHANGED <<m_channels, m_prohibitedEndpoints, providedSchemes, nics, snapshot>>
  /\ UNCHANGED ftVars

\* The operating system's interfaces change between two calls: eth0 gets its
\* addresses.
NicChange ==
  /\ nics = "eth0 down"
  /\ nics' = "eth0 up"
  /\ fCall' = [op |-> "nicChange"]
  /\ UNCHANGED <<m_channels, m_prohibitedEndpoints, providedSchemes, snapshot>>
  /\ UNCHANGED ftVars

\* A few createFace requests, one per outcome.
FewRequests ==
  {Request(Remote4, "6363", TRUE, ON_DEMAND, FALSE),
   Request(Mcast4, "6363", FALSE, PERSISTENT, TRUE),
   Request(Lo4, "6363", FALSE, PERSISTENT, TRUE),
   Request(Remote6, "6364", FALSE, PERMANENT, FALSE)}

\* A few config sections, applied in real mode.
FewSections ==
  {Some(<<>>), Some(<<<<"enable_v6", "no">>>>),
   Some(<<<<"port", "6364">>, <<"enable_v4", "no">>>>)}

TcpFactoryNext ==
  \/ \E localIp \in ChannelAddresses, localPort \in PortStrings :
       CreateChannel(localIp, localPort)
  \/ \E configSection \in Sections, isDryRun \in BOOLEAN :
       ProcessConfig(configSection, isDryRun)
  \/ \E req \in FewRequests : CreateFace(req)
  \/ NicChange

CreateFaceNext ==
  \/ \E localIp \in ChannelAddresses, localPort \in PortStrings :
       CreateChannel(localIp, localPort)
  \/ \E configSection \in FewSections : ProcessConfig(configSection, FALSE)
  \/ \E req \in Requests : CreateFace(req)
  \/ NicChange

Init == FaceTableInit /\ TcpFactoryInit

\* The FaceTable does not read the interfaces: one configuration is enough.
FaceTableStart == Init /\ nics = "eth0 up"

SpecFaceTable == FaceTableStart /\ [][FaceTableNext]_vars

\* The FaceTable with callers that respect the preconditions and callers that
\* break them.
FaceTableMisuseNext ==
  \/ FaceTableNext
  \/ \E face \in Faces : AddRegistered(face)
  \/ \E face \in Faces : RemoveUnregistered(face)

SpecFaceTableMisuse == FaceTableStart /\ [][FaceTableMisuseNext]_vars

SpecTcpFactory == Init /\ [][TcpFactoryNext]_vars

SpecCreateFace == Init /\ [][CreateFaceNext]_vars

-----------------------------------------------------------------------------
(* FaceTable: properties *)

\* C1: the ids assigned by successive add calls are strictly increasing, each
\* differs from INVALID_FACEID, none is assigned by two add calls (also after
\* the face that held it was removed), and the id an add call assigns is the
\* id the face then carries.
C1_MonotonicUniqueIds ==
  /\ \A i \in DOMAIN assigned : assigned[i] # INVALID_FACEID
  /\ \A i, j \in DOMAIN assigned : i < j => assigned[i] < assigned[j]
  /\ \A i, j \in DOMAIN assigned : i # j => assigned[i] # assigned[j]
  /\ ftCall.op = "add" =>
       /\ faceId[ftCall.face] = ftCall.id
       /\ assigned[Len(assigned)] = ftCall.id

\* C1 witness: an add that follows a remove (an earlier id is no longer in
\* the table) and at least two earlier adds.
C1_Witness ==
  /\ ftCall.op = "add"
  /\ Len(assigned) >= 3
  /\ \E i \in DOMAIN assigned : assigned[i] \notin DOMAIN m_faces

\* C2: right after remove(face) on a registered face, the face's id is
\* INVALID_FACEID, the id it held is no key of the table, both subscriber
\* lists of the face are empty and no forwarding-table entry lists the face.
C2_RemovePurges ==
  ftCall.op = "remove" =>
    /\ faceId[ftCall.face] = INVALID_FACEID
    /\ ftCall.id \notin DOMAIN m_faces
    /\ onReceiveInterest[ftCall.face] = <<>>
    /\ onReceiveData[ftCall.face] = <<>>
    /\ \A p \in Prefixes : ftCall.face \notin fib[p]

\* C2 witness: a remove of a face that was a next hop and had a subscriber
\* besides the forwarder's two handlers.
C2_Witness ==
  /\ ftCall.op = "remove"
  /\ ftCall.before.nextHop
  /\ ftCall.before.subscribers >= 3
  /\ ftCall.id # INVALID_FACEID

\* C3: for every FaceId i other than INVALID_FACEID, i is a key of the table
\* iff exactly one face has id i, and then the table maps i to that face;
\* every face that is no value of the table has id INVALID_FACEID.
C3_TableMatchesFaces ==
  /\ \A i \in (0..(MaxAdds + 1)) \ {INVALID_FACEID} :
       /\ i \in DOMAIN m_faces <=> Cardinality({f \in Faces : faceId[f] = i}) = 1
       /\ i \in DOMAIN m_faces => faceId[m_faces[i]] = i
  /\ \A f \in Faces : faceId[f] \notin (0..(MaxAdds + 1)) => faceId[f] = INVALID_FACEID
  /\ \A f \in Faces : f \notin Range(m_faces) => faceId[f] = INVALID_FACEID

\* C3 witness: a face is registered while another one, registered before it,
\* has been removed.
C3_Witness ==
  /\ Cardinality(DOMAIN m_faces) >= 1
  /\ \E f \in Faces : faceId[f] = INVALID_FACEID /\ f \notin Range(m_faces)
  /\ Len(assigned) > Cardinality(DOMAIN m_faces)

-----------------------------------------------------------------------------
(* TcpFactory: properties *)

\* The request and the outcome of the createFace call just made.
LastRequest == fCall.req
LastOutcome == fCall.out

Resolvable(req) ==
  req.remoteUri.host \in Addresses /\ req.remoteUri.port \in PortStrings

\* The gates of createFace a request violates, stated on the request and the
\* factory's sets.  Gates 4 to 7 refer to the resolved remote.
ViolatesLocalUri(req) == req.localUri
ViolatesOnDemand(req) == req.persistency = ON_DEMAND
ViolatesMulticast(req) == req.remoteUri.host \in {Mcast4, Mcast6}
ViolatesProhibited(req) ==
  \E e \in m_prohibitedEndpoints :
    e.address = req.remoteUri.host /\ e.port = lexical_cast(req.remoteUri.port)
ViolatesLocalFields(req) ==
  req.wantLocalFieldsEnabled /\ req.remoteUri.host \notin {Lo4, Lo6}
ViolatesNoChannel(req) ==
  ~ \E e \in DOMAIN m_channels :
      (e.address \in V4Addresses) = (req.remoteUri.host \in V4Addresses)

Violations(req) ==
  (IF ViolatesLocalUri(req) THEN {1} ELSE {})
  \cup (IF ViolatesOnDemand(req) THEN {2} ELSE {})
  \cup (IF Resolvable(req) /\ ViolatesMulticast(req) THEN {4} ELSE {})
  \cup (IF Resolvable(req) /\ ViolatesProhibited(req) THEN {5} ELSE {})
  \cup (IF Resolvable(req) /\ ViolatesLocalFields(req) THEN {6} ELSE {})
  \cup (IF Resolvable(req) /\ ViolatesNoChannel(req) THEN {7} ELSE {})

GateResult(g) ==
  CASE g = 1 -> [code |-> 406, reason |-> ReasonLocalUri]
    [] g = 2 -> [code |-> 406, reason |-> ReasonOnDemand]
    [] g = 4 -> [code |-> 406, reason |-> ReasonMulticast]
    [] g = 5 -> [code |-> 406, reason |-> ReasonProhibited]
    [] g = 6 -> [code |-> 406, reason |-> ReasonLocalFields]
    [] g = 7 -> [code |-> 504, reason |-> ReasonNoChannel]

Earliest(gates) == CHOOSE g \in gates : \A h \in gates : g <= h

\* Whether resolving the remote (step 3) is reached and throws.
ResolutionThrows(req) ==
  ~ViolatesLocalUri(req) /\ ~ViolatesOnDemand(req) /\ ~Resolvable(req)

\* C4: a createFace request that violates two or more gates (and whose
\* remote resolves, or that is rejected before resolution) is answered with
\* one onFailure call carrying the code and reason of the earliest violated
\* gate in the order localUri, on-demand, multicast, prohibited,
\* local fields, no channel; no connect is made.
C4_GateOrder ==
  fCall.op = "createFace" =>
    LET v == Violations(LastRequest) IN
    (Cardinality(v) >= 2 /\ ~ResolutionThrows(LastRequest)) =>
      /\ LastOutcome.failures = <<GateResult(Earliest(v))>>
      /\ LastOutcome.connects = <<>>

\* C4 witness: a request that violates the prohibited-endpoint gate and the
\* local-fields gate and nothing earlier is answered for the prohibited
\* endpoint.
C4_Witness ==
  /\ fCall.op = "createFace"
  /\ Violations(LastRequest) = {5, 6}
  /\ LastOutcome.failures = <<[code |-> 406, reason |-> ReasonProhibited]>>

\* The addresses of one family in a list of network interfaces.
EnumeratedV4(nicList) == {a \in V4Addresses : \E nic \in nicList : a \in nic.ipv4Addresses}
EnumeratedV6(nicList) == {a \in V6Addresses : \E nic \in nicList : a \in nic.ipv6Addresses}

\* C5: the local endpoint of every channel of the registry is prohibited, and
\* for a channel at the wildcard address of a family at port P, (a, P) is
\* prohibited for every local address a of that family that was enumerated
\* when the channel was created.
C5_ChannelsProhibited ==
  \A e \in DOMAIN m_channels :
    /\ e \in m_prohibitedEndpoints
    /\ e.address = Any4 =>
         \A a \in EnumeratedV4(Interfaces(snapshot[e])) : Endpoint(a, e.port) \in m_prohibitedEndpoints
    /\ e.address = Any6 =>
         \A a \in EnumeratedV6(Interfaces(snapshot[e])) : Endpoint(a, e.port) \in m_prohibitedEndpoints

\* C5 witness: the registry holds a wildcard channel that was created while
\* eth0 had its addresses, and a channel at a concrete address.
C5_Witness ==
  /\ \E e \in DOMAIN m_channels : e.address = Any4 /\ snapshot[e] = "eth0 up"
  /\ \E e \in DOMAIN m_channels : e.address \notin {Any4, Any6}

\* What prohibitEndpoint(e) adds, stated as a set.
Expansion(e, nicList) ==
  {e}
  \cup (IF e.address = Any4
        THEN {Endpoint(a, e.port) : a \in EnumeratedV4(nicList) \ {Any4}} ELSE {})
  \cup (IF e.address = Any6
        THEN {Endpoint(a, e.port) : a \in EnumeratedV6(nicList) \ {Any6}} ELSE {})

\* C6: a call that makes channels changes the prohibited set by exactly what
\* prohibitEndpoint adds for each channel made: the endpoint itself and, for
\* a wildcard of a family at port P, (a, P) for every enumerated address a of
\* that family other than the wildcard; nothing of the other family, nothing
\* at another port, and nothing is removed.
C6_ProhibitExact ==
  [][fCall'.op \in {"createChannel", "processConfig"} =>
       /\ m_prohibitedEndpoints' =
            m_prohibitedEndpoints \cup UNION {Expansion(e, listNetworkInterfaces) : e \in fCall'.created}
       /\ m_prohibitedEndpoints \subseteq m_prohibitedEndpoints'
       /\ \A x \in m_prohibitedEndpoints' \ m_prohibitedEndpoints :
            \E e \in fCall'.created :
              /\ x.port = e.port
              /\ (x.address \in V4Addresses) = (e.address \in V4Addresses)
              /\ e.address \notin {Any4, Any6} => x = e]_vars

\* C6 witness: the IPv4 wildcard was prohibited at port 6364 while eth0 had
\* its addresses, and no IPv6 endpoint is prohibited.
C6_Witness ==
  /\ fCall.op = "createChannel"
  /\ fCall.created = {Endpoint(Any4, 6364)}
  /\ {Endpoint(Any4, 6364), Endpoint(Lo4, 6364), Endpoint(Nic4, 6364)}
       \subseteq m_prohibitedEndpoints
  /\ \A x \in m_prohibitedEndpoints : x.address \in V4Addresses

\* C7: after createChannel(e) the registry holds a channel for e, and it is
\* the one returned; createChannel(e) for an endpoint that has a channel
\* returns that channel (the instance made first, never a new one) and leaves
\* the registry and the prohibited set as they were.
C7_CreateChannelIdempotent ==
  [][fCall'.op = "createChannel" =>
       LET e == fCall'.endpoint IN
       /\ e \in DOMAIN m_channels'
       /\ fCall'.returned = m_channels'[e]
       /\ m_channels'[e].gen = 1
       /\ e \in DOMAIN m_channels =>
            /\ fCall'.returned = m_channels[e]
            /\ fCall'.created = {}
            /\ m_channels' = m_channels
            /\ m_prohibitedEndpoints' = m_prohibitedEndpoints]_vars

\* C7 witness: createChannel found a channel that an earlier processConfig
\* had made and set listening.
C7_Witness ==
  /\ fCall.op = "createChannel"
  /\ fCall.created = {}
  /\ fCall.returned.listening
  /\ nics = "eth0 up"
  /\ snapshot[fCall.endpoint] = "eth0 down"

Known == {"listen", "port", "enable_v4", "enable_v6"}

HasUnknownKey(pairs) == \E i \in DOMAIN pairs : pairs[i][1] \notin Known

HasMalformedValue(pairs) ==
  \E i \in DOMAIN pairs :
    \/ pairs[i][1] \in {"listen", "enable_v4", "enable_v6"} /\ pairs[i][2] \notin {"yes", "no"}
    \/ pairs[i][1] = "port" /\ pairs[i][2] \notin PortStrings

\* The value a key has after the whole section is read: its last occurrence.
Setting(pairs, key, default) ==
  IF \E i \in DOMAIN pairs : pairs[i][1] = key
  THEN LET last == CHOOSE i \in DOMAIN pairs :
                     /\ pairs[i][1] = key
                     /\ \A j \in DOMAIN pairs : pairs[j][1] = key => j <= i
       IN pairs[last][2]
  ELSE default

BothDisabled(pairs) ==
  Setting(pairs, "enable_v4", "yes") = "no" /\ Setting(pairs, "enable_v6", "yes") = "no"

\* A section that is a configuration error.
Rejected(configSection) ==
  /\ configSection.present
  /\ \/ HasUnknownKey(configSection.pairs)
     \/ HasMalformedValue(configSection.pairs)
     \/ BothDisabled(configSection.pairs)

FactoryUnchanged ==
  UNCHANGED <<m_channels, m_prohibitedEndpoints, providedSchemes>>

\* C8: a processConfig call with an unrecognized key, or with enable_v4 and
\* enable_v6 both "no", ends in a configuration error, and a call that ends
\* in a configuration error, in dry-run or real mode, leaves the registry
\* (with every channel's listening state), the prohibited set and the
\* provided schemes as they were.
C8_RejectedConfigUntouched ==
  [][fCall'.op = "processConfig" =>
       /\ (fCall'.configSection.present /\
           (HasUnknownKey(fCall'.configSection.pairs) \/
            BothDisabled(fCall'.configSection.pairs))) => fCall'.error # "none"
       /\ fCall'.error # "none" => FactoryUnchanged]_vars

\* C8 witness: a real-mode call with both families disabled was rejected
\* while the registry held a listening channel.
C8_Witness ==
  /\ fCall.op = "processConfig"
  /\ ~fCall.isDryRun
  /\ fCall.error # "none"
  /\ BothDisabled(fCall.configSection.pairs)
  /\ ~HasUnknownKey(fCall.configSection.pairs)
  /\ \E e \in DOMAIN m_channels : m_channels[e].listening

\* C9: a processConfig call in dry-run mode, or with no section, leaves the
\* registry, the prohibited set and the provided schemes as they were; in
\* both modes the call ends in a configuration error exactly when the
\* section is a rejected one; with no section it warns exactly when the call
\* is not a dry run and the registry is not empty.
C9_DryRunAndAbsent ==
  [][fCall'.op = "processConfig" =>
       /\ (fCall'.isDryRun \/ ~fCall'.configSection.present) =>
            FactoryUnchanged /\ fCall'.listened = {} /\ fCall'.created = {}
       /\ (fCall'.error # "none") = Rejected(fCall'.configSection)
       /\ ~fCall'.configSection.present =>
            (fCall'.warnings # {}) = (~fCall'.isDryRun /\ DOMAIN m_channels # {})]_vars

\* C9 witness: a dry run of an acceptable section that a real-mode call would
\* have acted on: the registry is still empty.
C9_Witness ==
  /\ fCall.op = "processConfig"
  /\ fCall.isDryRun
  /\ fCall.configSection = Some(ScenarioA)
  /\ fCall.error = "none"
  /\ DOMAIN m_channels = {}
  /\ providedSchemes = {}

\* C10: from a factory with no channels, a real-mode processConfig with
\* listen yes, port 6363, enable_v4 yes, enable_v6 yes (given or defaulted)
\* leaves exactly the channels (0.0.0.0, 6363) and (::, 6363), both listening
\* with context.addFace as sink, and the provided schemes tcp, tcp4, tcp6.
C10_ScenarioA ==
  [][(/\ fCall'.op = "processConfig"
      /\ ~fCall'.isDryRun
      /\ fCall'.configSection \in {Some(ScenarioA), Some(<<>>)}
      /\ DOMAIN m_channels = {}) =>
       /\ DOMAIN m_channels' = {Endpoint(Any4, 6363), Endpoint(Any6, 6363)}
       /\ \A e \in DOMAIN m_channels' :
            m_channels'[e].listening /\ m_channels'[e].onFaceCreated = AddFace
       /\ providedSchemes' = {"tcp", "tcp4", "tcp6"}
       /\ fCall'.error = "none"]_vars

\* C10 witness: the state after that call.
C10_Witness ==
  /\ fCall.op = "processConfig"
  /\ ~fCall.isDryRun
  /\ fCall.configSection = Some(ScenarioA)
  /\ fCall.created = {Endpoint(Any4, 6363), Endpoint(Any6, 6363)}
  /\ fCall.listened = fCall.created
  /\ DOMAIN m_channels = fCall.created

\* The endpoint a resolvable request's remote resolves to.
Resolved(req) == Endpoint(req.remoteUri.host, lexical_cast(req.remoteUri.port))

SameFamily(a, b) == (a \in V4Addresses) = (b \in V4Addresses)

\* A request for a face to a loopback remote with local fields enabled, no
\* localUri and persistent or permanent persistency, while the registry holds
\* a channel of the remote's family.
LocalFieldsRequest(req) ==
  /\ Resolvable(req)
  /\ req.remoteUri.host \in {Lo4, Lo6}
  /\ req.wantLocalFieldsEnabled
  /\ ~req.localUri
  /\ req.persistency \in {PERSISTENT, PERMANENT}
  /\ \E e \in DOMAIN m_channels : SameFamily(e.address, req.remoteUri.host)

\* The call made no onFailure call and one connect, on a channel of the
\* remote's family.
Delegated(req, out) ==
  /\ out.failures = <<>>
  /\ ~out.thrown
  /\ Len(out.connects) = 1
  /\ out.connects[1].channel \in DOMAIN m_channels
  /\ SameFamily(out.connects[1].channel.address, req.remoteUri.host)
  /\ out.connects[1].remote = Resolved(req)

\* C11 as stated: every such request is delegated to a matching channel.
C11_Original ==
  (fCall.op = "createFace" /\ LocalFieldsRequest(LastRequest)) =>
    Delegated(LastRequest, LastOutcome)

\* C11 (amended): such a request is delegated to a matching channel, without
\* an onFailure call, provided its resolved remote is not a prohibited
\* endpoint; when it is prohibited the call is answered with onFailure
\* (406, prohibited) and no connect is made.
C11_LoopbackLocalFieldsAccepted ==
  (fCall.op = "createFace" /\ LocalFieldsRequest(LastRequest)) =>
    IF Resolved(LastRequest) \in m_prohibitedEndpoints
    THEN /\ LastOutcome.failures = <<[code |-> 406, reason |-> ReasonProhibited]>>
         /\ LastOutcome.connects = <<>>
    ELSE Delegated(LastRequest, LastOutcome)

\* C11 witness: a loopback request with local fields enabled was delegated
\* while another port's loopback endpoint is prohibited.
C11_Witness ==
  /\ fCall.op = "createFace"
  /\ LocalFieldsRequest(LastRequest)
  /\ LastRequest.remoteUri.host = Lo4
  /\ Len(LastOutcome.connects) = 1
  /\ \E e \in m_prohibitedEndpoints : e.address = Lo4

\* C12: a createFace call, whatever its request and whatever its outcome
\* (rejection, resolution error, delegation, no channel), leaves the channel
\* registry with every channel's state, the prohibited set and the provided
\* schemes as they were before the call.
C12_CreateFaceIsFrame ==
  [][fCall'.op = "createFace" =>
       /\ m_channels' = m_channels
       /\ m_prohibitedEndpoints' = m_prohibitedEndpoints
       /\ providedSchemes' = providedSchemes]_vars

\* C12 witness: a createFace call was delegated to a channel of a factory
\* that holds channels, prohibitions and schemes.
C12_Witness ==
  /\ fCall.op = "createFace"
  /\ Len(fCall.out.connects) = 1
  /\ m_channels # <<>>
  /\ m_prohibitedEndpoints # {}
  /\ providedSchemes # {}

\* C13: with callers that add a registered face or remove an unregistered
\* one, the table is never corrupted: every id of the table maps to a face
\* whose current id is that id, no face is stored under two ids, and no face
\* whose id is INVALID_FACEID is in the table.
C13_MisuseKeepsTableSound ==
  /\ \A id \in DOMAIN m_faces : faceId[m_faces[id]] = id
  /\ \A i, j \in DOMAIN m_faces : m_faces[i] = m_faces[j] => i = j
  /\ \A id \in DOMAIN m_faces : faceId[m_faces[id]] # INVALID_FACEID

\* An accepted real-mode processConfig step whose section sets the key to "no".
DisablesFamily(key) ==
  /\ fCall'.op = "processConfig"
  /\ ~fCall'.isDryRun
  /\ fCall'.configSection.present
  /\ fCall'.error = "none"
  /\ Setting(fCall'.configSection.pairs, key, "yes") = "no"

\* Every channel of the family stays in the registry with its listening
\* state, and the call emits the family's warning.
KeptAndWarned(family, warning) ==
  /\ \A e \in DOMAIN m_channels :
       e.address \in family =>
         /\ e \in DOMAIN m_channels'
         /\ m_channels'[e].listening = m_channels[e].listening
  /\ warning \in fCall'.warnings

\* C14: an accepted real-mode processConfig call that disables a family
\* while the registry holds a channel of that family keeps that channel with
\* its listening state and emits the "cannot close" warning of the family.
C14_DisableKeepsAndWarns ==
  [][/\ (DisablesFamily("enable_v4") /\
         \E e \in DOMAIN m_channels : e.address \in V4Addresses)
          => KeptAndWarned(V4Addresses, Warn4)
     /\ (DisablesFamily("enable_v6") /\
         \E e \in DOMAIN m_channels : e.address \in V6Addresses)
          => KeptAndWarned(V6Addresses, Warn6)]_vars

IsListening(channels, e) == e \in DOMAIN channels /\ channels[e].listening

\* The channels an accepted real-mode call with listen = yes must start: the
\* wildcard channel at the configured port of each enabled family, unless it
\* is listening already; no channel for any other call.
ListenTargets(call, channels) ==
  IF /\ call.op = "processConfig"
     /\ ~call.isDryRun
     /\ call.configSection.present
     /\ call.error = "none"
     /\ Setting(call.configSection.pairs, "listen", "yes") = "yes"
  THEN LET port == lexical_cast(Setting(call.configSection.pairs, "port", "6363"))
           wanted ==
             {Endpoint(Any4, port) : x \in
                {y \in {1} : Setting(call.configSection.pairs, "enable_v4", "yes") = "yes"}}
             \cup
             {Endpoint(Any6, port) : x \in
                {y \in {1} : Setting(call.configSection.pairs, "enable_v6", "yes") = "yes"}}
       IN {e \in wanted : ~IsListening(channels, e)}
  ELSE {}

\* C15: listen is invoked exactly on the wildcard channels of the enabled
\* families at the configured port that are not listening yet, by an
\* accepted real-mode processConfig call with listen = yes, and by no other
\* call; so never on a listening channel and never in dry-run. A channel
\* listens after a step exactly if it listened before or listen was invoked
\* on it: a channel created under listen = no starts on a later listen = yes
\* call, and no call, listen = no included, stops a listening channel.
C15_ListenOnlyWhenNeeded ==
  [][/\ fCall'.op = "processConfig" =>
          fCall'.listened = ListenTargets(fCall', m_channels)
     /\ \A e \in DOMAIN m_channels' :
          m_channels'[e].listening <=>
            \/ IsListening(m_channels, e)
            \/ e \in ListenTargets(fCall', m_channels)
     /\ \A e \in DOMAIN m_channels : IsListening(m_channels, e) => IsListening(m_channels', e)]_vars

\* C15 witness: a call with listen = yes started a channel that an earlier
\* call had created, while another wildcard channel is not listening.
C15_Witness ==
  /\ fCall.op = "processConfig"
  /\ fCall.listened # {}
  /\ fCall.listened \cap fCall.created = {}
  /\ \E e \in DOMAIN m_channels : e.address \in {Any4, Any6} /\ ~m_channels[e].listening

\* A request whose remote resolves and that passes gates 1 to 6.
PassesGates(req) ==
  Resolvable(req) /\ Violations(req) \cap {1, 2, 4, 5, 6} = {}

\* The channels of the registry with the family of the request's remote.
Matching(req) ==
  {e \in DOMAIN m_channels : SameFamily(e.address, req.remoteUri.host)}

\* C16: for a createFace request that passes gates 1 to 6: if the registry
\* holds a channel of the remote's family, connect is invoked once, on the
\* first such channel in registry (endpoint) order, with the resolved remote
\* and the request's persistency, local-fields flag and two callbacks, and
\* onFailure is not invoked; if it holds none, onFailure is invoked once with
\* 504 and no connect is made, whatever channels of the other family exist.
C16_FirstMatchingChannel ==
  (fCall.op = "createFace" /\ PassesGates(LastRequest)) =>
    IF Matching(LastRequest) # {}
    THEN /\ LastOutcome.failures = <<>>
         /\ Len(LastOutcome.connects) = 1
         /\ LET c == LastOutcome.connects[1] IN
            /\ c.channel \in Matching(LastRequest)
            /\ \A o \in Matching(LastRequest) \ {c.channel} : EndpointLess(c.channel, o)
            /\ c.remote = Resolved(LastRequest)
            /\ c.persistency = LastRequest.persistency
            /\ c.wantLocalFieldsEnabled = LastRequest.wantLocalFieldsEnabled
            /\ c.onCreated = LastRequest.onCreated
            /\ c.onFailure = LastRequest.onFailure
    ELSE /\ LastOutcome.failures = <<[code |-> 504, reason |-> ReasonNoChannel]>>
         /\ LastOutcome.connects = <<>>

\* C16 witness: the registry holds two channels of the remote's family and
\* the request was delegated.
C16_Witness ==
  /\ fCall.op = "createFace"
  /\ PassesGates(LastRequest)
  /\ Cardinality(Matching(LastRequest)) = 2
  /\ Len(LastOutcome.connects) = 1

\* A request passing gates 1 to 6 was answered with 504 while the registry
\* holds a channel of the other family.
C16_OtherFamilyOnly ==
  /\ fCall.op = "createFace"
  /\ PassesGates(LastRequest)
  /\ Matching(LastRequest) = {}
  /\ m_channels # <<>>
  /\ Len(LastOutcome.failures) = 1

\* The daemon's own endpoints: the local endpoint of every registered
\* channel and, for a wildcard channel at port P, (a, P) for every local
\* address a of the channel's family enumerated when the channel was created.
OwnEndpoints ==
  UNION {Expansion(e, Interfaces(snapshot[e])) : e \in DOMAIN m_channels}

\* C17: a createFace request whose resolved remote is one of the daemon's
\* own endpoints (local addresses as enumerated when the channel was
\* created) is never delegated to connect: it is answered with one onFailure
\* call with 406, for the reason "prohibited" unless an earlier gate rejects
\* it.
C17_NeverDialsItself ==
  (/\ fCall.op = "createFace"
   /\ Resolvable(LastRequest)
   /\ Resolved(LastRequest) \in OwnEndpoints) =>
    /\ LastOutcome.connects = <<>>
    /\ ~LastOutcome.thrown
    /\ Len(LastOutcome.failures) = 1
    /\ LastOutcome.failures[1].code = 406
    /\ (~ViolatesLocalUri(LastRequest) /\ ~ViolatesOnDemand(LastRequest)) =>
         LastOutcome.failures[1].reason = ReasonProhibited

\* C17 witness: a request that passes gates 1 and 2, for eth0's address at
\* the port of the IPv4 wildcard channel, was answered.
C17_Witness ==
  /\ fCall.op = "createFace"
  /\ ~ViolatesLocalUri(LastRequest) /\ ~ViolatesOnDemand(LastRequest)
  /\ LastRequest.remoteUri.host = Nic4
  /\ Resolvable(LastRequest)
  /\ \E e \in DOMAIN m_channels :
       /\ e.address = Any4
       /\ e.port = Resolved(LastRequest).port
       /\ snapshot[e] = "eth0 up"

NotOther(handler) == handler # Other

\* The subscriptions of a slot that add made: the slot without the
\* subscriptions of other components.
ByFaceTable(slot) == SelectSeq(slot, NotOther)

\* C18: with callers that respect the preconditions, a registered face has
\* the forwarder's handler exactly once in each of its two slots, however
\* often it was removed and added again; an unregistered face has none; a
\* face no other component subscribed to has exactly these subscribers, and
\* right after remove both slots of the face are empty.
C18_SubscriptionsDoNotAccumulate ==
  /\ \A face \in Faces :
       /\ faceId[face] # INVALID_FACEID =>
            /\ ByFaceTable(onReceiveInterest[face]) = <<OnInterest>>
            /\ ByFaceTable(onReceiveData[face]) = <<OnData>>
       /\ faceId[face] = INVALID_FACEID =>
            /\ ByFaceTable(onReceiveInterest[face]) = <<>>
            /\ ByFaceTable(onReceiveData[face]) = <<>>
       /\ Other \notin Subscribers(face) =>
            Len(onReceiveInterest[face]) = Len(onReceiveData[face])
  /\ ftCall.op = "remove" =>
       onReceiveInterest[ftCall.face] = <<>> /\ onReceiveData[ftCall.face] = <<>>

\* C18 witness: a face that was added twice is registered with one
\* subscriber in each slot, and the other face is removed with none.
C18_Witness ==
  /\ ftCall.op = "add"
  /\ Len(assigned) = MaxAdds
  /\ \E g \in Faces : faceId[g] = INVALID_FACEID /\ Subscribers(g) = {}
  /\ \E f \in Faces :
       /\ faceId[f] = MaxAdds
       /\ onReceiveInterest[f] = <<OnInterest>>
       /\ onReceiveData[f] = <<OnData>>

\* C19: a createFace call whose remote resolves has exactly one outcome:
\* either one onFailure call, with 406 or 504, and no connect, or one connect
\* on a channel of the registry and no onFailure call; createFace itself
\* never calls onCreated, and nothing is thrown.
C19_ExactlyOneOutcome ==
  (fCall.op = "createFace" /\ Resolvable(LastRequest)) =>
    /\ LastOutcome.created = <<>>
    /\ ~LastOutcome.thrown
    /\ \/ /\ Len(LastOutcome.failures) = 1
          /\ LastOutcome.failures[1].code \in {406, 504}
          /\ LastOutcome.connects = <<>>
       \/ /\ LastOutcome.failures = <<>>
          /\ Len(LastOutcome.connects) = 1
          /\ LastOutcome.connects[1].channel \in DOMAIN m_channels

\* C19 witness: a request that asks for local fields on a remote that is
\* not loopback was answered while a channel of the remote's family exists.
C19_Witness ==
  /\ fCall.op = "createFace"
  /\ Resolvable(LastRequest)
  /\ Violations(LastRequest) = {6}
  /\ Len(LastOutcome.failures) = 1

\* C20: no step removes a channel from the registry, an endpoint from the
\* prohibited set or a name from the provided schemes; every channel a call
\* made is in the registry and prohibited after it, next to the earlier ones.
C20_StateOnlyGrows ==
  [][/\ DOMAIN m_channels \subseteq DOMAIN m_channels'
     /\ m_prohibitedEndpoints \subseteq m_prohibitedEndpoints'
     /\ providedSchemes \subseteq providedSchemes'
     /\ fCall'.op \in {"createChannel", "processConfig"} =>
          /\ DOMAIN m_channels' = DOMAIN m_channels \cup fCall'.created
          /\ fCall'.created \subseteq m_prohibitedEndpoints']_vars

\* C20 witness: a real-mode call with another port made a channel next to a
\* channel at the earlier port, and disabled a family whose scheme stays.
C20_Witness ==
  /\ fCall.op = "processConfig"
  /\ ~fCall.isDryRun
  /\ \E e \in fCall.created : e.port = 6364
  /\ \E e \in DOMAIN m_channels : e.port = 6363 /\ e \in m_prohibitedEndpoints
  /\ \E key \in {"enable_v4", "enable_v6"} :
       Setting(fCall.configSection.pairs, key, "yes") = "no"
  /\ {"tcp4", "tcp6"} \subseteq providedSchemes

====
